---- MODULE Spec2Model ----
(***************************************************************************)
(* Model of the permission-gated hierarchical Store of src/src/store.ts.   *)
(*                                                                         *)
(* Representation choices                                                  *)
(*  - A string (property name or path) is represented by the sequence of   *)
(*    its colon-free segments: "a:b" is <<"a","b">>, "a" is <<"a">>.       *)
(*    path.split(':') is then the sequence itself and                      *)
(*    segments.slice(1).join(':') is Tail.                                 *)
(*  - The heap maps store identities to store objects.  Identities are     *)
(*    allocated in increasing order by `new Store()` and never reused.     *)
(*    Stores no longer reachable from the root are dropped from the heap.  *)
(*  - The root store is an instance of a class that may carry @Restrict    *)
(*    declarations; nested stores are always plain `new Store()`.          *)
(***************************************************************************)
EXTENDS Integers, Sequences, FiniteSets, TLC

VARIABLES
  heap,       \* store identity -> [defaultPolicy, permissionsByKey, slots]
  nextId,     \* identity the next `new Store()` receives
  shape,      \* index of the class (prototype chain) of the root store
  last,       \* the last call made on a store and its outcome
  flat        \* the store without path navigation run beside the root

vars == <<heap, nextId, shape, last, flat>>

(***************************************************************************)
(* Bounds of the model.                                                    *)
(***************************************************************************)
MaxStores == 3

Root == 1

Permission == {"r", "w", "rw", "none"}
ReadPerms == {"r", "rw"}
WritePerms == {"w", "rw"}

(***************************************************************************)
(* Values (StoreValue).                                                    *)
(***************************************************************************)
Undef == [t |-> "undef"]
Null == [t |-> "null"]
Prim(n) == [t |-> "prim", n |-> n]
StoreRef(i) == [t |-> "store", n |-> i]
\* function () { return this[k]; }
FnGet(k) == [t |-> "fn", k |-> k]
\* { k1: v1, k2: v2, ... } in insertion order
Obj(e) == [t |-> "obj", e |-> e]
\* [v1, v2, ...]
Arr(e) == [t |-> "arr", e |-> e]
Entry(k, v) == [k |-> k, v |-> v]
\* a string that is not a path, such as 'rw'
Str(x) == [t |-> "str", s |-> x]

EmptyMap == [x \in {} |-> Undef]
Put(f, k, v) == [x \in (DOMAIN f) \cup {k} |-> IF x = k THEN v ELSE f[x]]

\* class Store { defaultPolicy = 'rw'; permissionsByKey = {}; }
NewStore == [defaultPolicy |-> "rw", permissionsByKey |-> EmptyMap, slots |-> EmptyMap]

(***************************************************************************)
(* Classes of the root store: @Restrict(...) declarations applied to the   *)
(* prototypes at class-definition time.  A shape lists its classes from    *)
(* the base-most subclass of Store to the class of the root instance; each *)
(* class lists its decorated fields in declaration order.  vals is the     *)
(* content the field initialisers left behind the nearest accessor.        *)
(***************************************************************************)
Decl(k, params) == [k |-> k, params |-> params]

Shapes == <<
  \* new Store()
  [classes |-> <<>>, vals |-> EmptyMap],
  \* class S extends Store { @Restrict('w') a; @Restrict('r') b = 2; }
  [classes |-> << <<Decl(<<"a">>, <<"w">>), Decl(<<"b">>, <<"r">>)>> >>,
   vals |-> Put(EmptyMap, <<"b">>, Prim(2))],
  \* class P extends Store { @Restrict('none') a = 1; @Restrict('rw') b; }
  \* class S extends P { @Restrict('r', 'w') a = function () { return this.b; }; }
  [classes |-> << <<Decl(<<"a">>, <<"none">>), Decl(<<"b">>, <<"rw">>)>>,
                  <<Decl(<<"a">>, <<"r", "w">>)>> >>,
   vals |-> Put(EmptyMap, <<"a">>, FnGet(<<"b">>))],
  \* class S extends Store { @Restrict('r') a = 1; }
  [classes |-> << <<Decl(<<"a">>, <<"r">>)>> >>,
   vals |-> Put(EmptyMap, <<"a">>, Prim(1))]
>>

\* define(target, propertyKey, params) on a prototype: the table the prototype
\* owns afterwards, given the table it saw before (own or inherited).
RECURSIVE RestrictAll(_, _)
RestrictAll(table, decls) ==
  IF decls = <<>> THEN table
  ELSE RestrictAll(Put(table, Head(decls).k, Head(decls).params), Tail(decls))

\* permissionsByKey of each prototype, base-most first.
RECURSIVE ProtoTables(_)
ProtoTables(classes) ==
  IF classes = <<>> THEN <<>>
  ELSE LET below == ProtoTables(SubSeq(classes, 1, Len(classes) - 1))
           seen == IF below = <<>> THEN EmptyMap ELSE below[Len(below)]
       IN Append(below, RestrictAll(seen, classes[Len(classes)]))

Reverse(sq) == [i \in 1..Len(sq) |-> sq[Len(sq) + 1 - i]]

\* The prototype chain of store s as the list of permissionsByKey tables met
\* by Object.getPrototypeOf, nearest first.
ProtoChain(s) == IF s = Root THEN Reverse(ProtoTables(Shapes[shape].classes)) ELSE <<>>

\* Names that have an accessor on some prototype of s (Object.defineProperty
\* at lines 209-218 applied to a prototype by Restrict).
ProtoAccessors(s) == UNION {DOMAIN ProtoChain(s)[i] : i \in 1..Len(ProtoChain(s))}

\* Names with an accessor on the immediate prototype of s.
OwnProtoAccessors(s) ==
  IF s = Root /\ Shapes[shape].classes # <<>>
  THEN LET c == Shapes[shape].classes[Len(Shapes[shape].classes)]
       IN {c[j].k : j \in 1..Len(c)}
  ELSE {}

\* What the accessor found on the prototype chain returns for instance s.
ProtoValue(s, key) ==
  IF s = Root /\ key \in DOMAIN Shapes[shape].vals THEN Shapes[shape].vals[key] ELSE Undef

(***************************************************************************)
(* Descriptors and permissions of one store.                               *)
(***************************************************************************)
\* Own data properties of every instance (class fields, lines 37-38).  A write
\* to one of these names turns the property into an accessor like any other
\* (define); its content is then in slots and the field of the model is dead.
DP == <<"defaultPolicy">>
PK == <<"permissionsByKey">>
InstanceFields == {DP, PK}

\* Own property names as Object.entries and the object spread list them:
\* integer-like names first, then the others in creation order (the class
\* fields first).  The order among a and b is fixed here; it decides only
\* which identity each store created by an expansion receives.
KeyOrder == <<<<"0">>, <<"1">>, <<"2">>, DP, PK, <<"a">>, <<"b">>>>

RECURSIVE Ordered(_, _)
Ordered(ks, order) ==
  IF order = <<>> THEN <<>>
  ELSE (IF Head(order) \in ks THEN <<Head(order)>> ELSE <<>>) \o Ordered(ks, Tail(order))

\* A permission list as the array it is.
PermsArr(params) == Arr([i \in 1..Len(params) |-> Str(params[i])])

\* The object whose properties are the domain of f.
ObjFromMap(f) ==
  LET ks == Ordered(DOMAIN f, KeyOrder)
  IN Obj([i \in 1..Len(ks) |-> Entry(ks[i], f[ks[i]])])

\* The properties of a list of entries, the last entry of a name winning.
EntriesMap(e) ==
  [k \in {e[i].k : i \in 1..Len(e)} |->
     e[CHOOSE i \in 1..Len(e) : e[i].k = k /\ \A j \in (i + 1)..Len(e) : e[j].k # k].v]

\* A permissionsByKey table kept as a data property, as the object it is.
TableObject(f) == ObjFromMap([k \in DOMAIN f |-> PermsArr(f[k])])

\* this.defaultPolicy and this.permissionsByKey
defaultPolicyOf(h, s) ==
  IF DP \in DOMAIN h[s].slots THEN h[s].slots[DP] ELSE Str(h[s].defaultPolicy)

permissionsByKeyOf(h, s) ==
  IF PK \in DOMAIN h[s].slots THEN h[s].slots[PK] ELSE TableObject(h[s].permissionsByKey)

\* Object.entries(store): the own enumerable properties, accessors read
\* through their getter.
StoreEntries(h, s) ==
  LET ks == Ordered((DOMAIN h[s].slots) \cup InstanceFields, KeyOrder)
  IN [i \in 1..Len(ks) |->
        Entry(ks[i], IF ks[i] \in DOMAIN h[s].slots THEN h[s].slots[ks[i]]
                     ELSE IF ks[i] = DP THEN defaultPolicyOf(h, s)
                     ELSE permissionsByKeyOf(h, s))]

\* Own properties of Store.prototype (lines 36-199).
StoreMembers ==
  {<<"constructor">>, <<"allowedToRead">>, <<"allowedToWrite">>, <<"read">>,
   <<"write">>, <<"writeEntries">>, <<"entries">>, <<"checkHasPermissionForKey">>,
   <<"hasKey">>, <<"getDescriptor">>, <<"getAllDescriptors">>, <<"getValueForKey">>,
   <<"resolveLazyValue">>, <<"getPermissionsForKey">>}

\* Mutation of hasKey: only the instance's own properties are looked at.
hasKeyOwn(h, s, key) == key \in DOMAIN h[s].slots \/ key \in InstanceFields

\* getDescriptor(key) !== null
hasKey(h, s, key) ==
  \/ key \in DOMAIN h[s].slots
  \/ key \in InstanceFields
  \/ key \in ProtoAccessors(s)
  \/ key \in StoreMembers

\* getDescriptor(key)?.get?.call(this): the own accessor shadows the
\* prototype's; no descriptor gives undefined.
DescriptorGet(h, s, key) ==
  IF key \in DOMAIN h[s].slots THEN h[s].slots[key]
  ELSE IF key \in ProtoAccessors(s) THEN ProtoValue(s, key)
  ELSE Undef

\* The first table of the chain that holds key, else [].
ProtoLookup(chain, key) ==
  LET hits == {i \in 1..Len(chain) : key \in DOMAIN chain[i]}
  IN IF hits = {} THEN <<>>
     ELSE chain[CHOOSE i \in hits : \A j \in hits : i <= j][key]

\* An array found under key in the object held by an accessor
\* permissionsByKey; a store or anything else held there has no array.
ArraysUnder(table, key) ==
  IF table.t = "obj"
  THEN {i \in 1..Len(table.e) : table.e[i].k = key /\ table.e[i].v.t = "arr"}
  ELSE {}

getPermissionsForKey(h, s, key) ==
  IF PK \in DOMAIN h[s].slots
  THEN LET table == h[s].slots[PK]
           hits == ArraysUnder(table, key)
       IN IF hits # {}
          THEN LET arr == table.e[CHOOSE i \in hits : TRUE].v.e
               IN [i \in 1..Len(arr) |-> arr[i].s]
          ELSE ProtoLookup(ProtoChain(s), key)
  ELSE IF key \in DOMAIN h[s].permissionsByKey
  THEN h[s].permissionsByKey[key]
  ELSE ProtoLookup(ProtoChain(s), key)

\* A producer called with `this` bound to store s.
Invoke(h, s, f) == DescriptorGet(h, s, f.k)

\* Mutation of resolveValue: a producer is handed back without being called.
resolveValueNoCall(h, value, context) == [v |-> value, calls |-> 0]

\* resolveValue(value, context) and Store.resolveLazyValue(value): the value
\* and the number of producer calls made.
resolveValue(h, value, context) ==
  IF value.t = "fn" THEN [v |-> Invoke(h, context, value), calls |-> 1]
  ELSE [v |-> value, calls |-> 0]

\* getValueForKey(key): an accessor's value, else the plain property (which
\* no name of the model has), resolved.
getValueForKey(h, s, key) == resolveValue(h, DescriptorGet(h, s, key), s)

\* Mutation of checkOwnPermission: the test of defaultPolicy against 'none'
\* returns true.
checkOwnPermissionNoneAllows(h, s, key, permissions) ==
  LET keyPerms == getPermissionsForKey(h, s, key)
  IN IF hasKey(h, s, key) /\ Len(keyPerms) > 0
     THEN \E i \in 1..Len(keyPerms) : keyPerms[i] \in permissions
     ELSE IF defaultPolicyOf(h, s) = Str("none") THEN TRUE
     ELSE defaultPolicyOf(h, s).t = "str" /\ defaultPolicyOf(h, s).s \in permissions

\* Lines 127-136: the decision store s takes by itself for the name key.
checkOwnPermission(h, s, key, permissions) ==
  LET keyPerms == getPermissionsForKey(h, s, key)
  IN IF hasKey(h, s, key) /\ Len(keyPerms) > 0
     THEN \E i \in 1..Len(keyPerms) : keyPerms[i] \in permissions
     ELSE IF defaultPolicyOf(h, s) = Str("none") THEN FALSE
     ELSE defaultPolicyOf(h, s).t = "str" /\ defaultPolicyOf(h, s).s \in permissions

\* Mutation of checkHasPermissionForKey: a path through a nested store also
\* needs the permission of the store itself on the first segment.
RECURSIVE checkHasPermissionForKeyGated(_, _, _, _)
checkHasPermissionForKeyGated(h, s, key, permissions) ==
  LET Local(calls) ==
        [allowed |-> checkOwnPermission(h, s, key, permissions), calls |-> calls]
      First(value) ==
        IF value.v.t = "store"
        THEN LET Sub(sub) ==
                   [allowed |-> sub.allowed
                                /\ checkOwnPermission(h, s, <<Head(key)>>, permissions),
                    calls |-> value.calls + sub.calls]
             IN Sub(checkHasPermissionForKeyGated(h, value.v.n, Tail(key), permissions))
        ELSE Local(value.calls)
  IN IF Len(key) > 1 THEN First(getValueForKey(h, s, <<Head(key)>>)) ELSE Local(0)

\* Whether the call is allowed, and the number of producer calls made.
RECURSIVE checkHasPermissionForKey(_, _, _, _)
checkHasPermissionForKey(h, s, key, permissions) ==
  LET Local(calls) ==
        [allowed |-> checkOwnPermission(h, s, key, permissions), calls |-> calls]
      First(value) ==
        IF value.v.t = "store"
        THEN LET Sub(sub) == [allowed |-> sub.allowed, calls |-> value.calls + sub.calls]
             IN Sub(checkHasPermissionForKey(h, value.v.n, Tail(key), permissions))
        ELSE Local(value.calls)
  IN IF Len(key) > 1 THEN First(getValueForKey(h, s, <<Head(key)>>)) ELSE Local(0)

allowedToRead(h, s, key) == checkHasPermissionForKey(h, s, key, ReadPerms).allowed
allowedToWrite(h, s, key) == checkHasPermissionForKey(h, s, key, WritePerms).allowed

(***************************************************************************)
(* define, read, write, writeEntries, entries.                             *)
(***************************************************************************)
\* Mutation of define: params are appended to the list already recorded.
defineAppending(h, s, key, params) ==
  [h EXCEPT ![s].permissionsByKey =
              Put(@, key, (IF key \in DOMAIN @ THEN @[key] ELSE <<>>) \o params),
            ![s].slots = Put(@, key, Undef)]

\* define(target, propertyKey, params) on an instance: the permission list
\* is recorded and the property becomes an accessor over a fresh private
\* symbol, under which nothing is stored yet.
\* { ...(value || {}) }: the own enumerable properties of value.
SpreadMap(h, value) ==
  IF value.t = "obj" THEN EntriesMap(value.e)
  ELSE IF value.t = "store" THEN EntriesMap(StoreEntries(h, value.n))
  ELSE EmptyMap

\* Lines 205-208 assign target.permissionsByKey: the data property, or
\* through the accessor once the name permissionsByKey was itself defined.
\* Lines 209-218 then replace the property named key, permissionsByKey
\* included, by an accessor that holds nothing.
define(h, s, key, params) ==
  LET recorded ==
        IF PK \in DOMAIN h[s].slots
        THEN [h EXCEPT ![s].slots[PK] =
                         ObjFromMap(Put(SpreadMap(h, @), key, PermsArr(params)))]
        ELSE [h EXCEPT ![s].permissionsByKey = Put(@, key, params)]
  IN IF key = PK
     THEN [recorded EXCEPT ![s].permissionsByKey = EmptyMap,
                           ![s].slots = Put(@, key, Undef)]
     ELSE [recorded EXCEPT ![s].slots = Put(@, key, Undef)]

\* descriptor?.set?.call(this, value) on the own accessor.
DescriptorSet(h, s, key, value) == [h EXCEPT ![s].slots = Put(@, key, value)]

\* new Store()
Alloc(h, id) == [x \in (DOMAIN h) \cup {id} |-> IF x = id THEN NewStore ELSE h[x]]

\* Mutation of isObject: a store is not taken for a structured object.
isPlainObject(value) == value.t \in {"obj", "arr"}

\* typeof value === 'object' && value !== null
isObject(value) == value.t \in {"obj", "arr", "store"}

IndexNames == <<"0", "1", "2">>

\* Object.entries(value)
ObjectEntries(value) ==
  IF value.t = "arr"
  THEN [i \in 1..Len(value.e) |-> Entry(<<IndexNames[i]>>, value.e[i])]
  ELSE value.e

\* Object.entries(value) for the values write expands.
EntriesFor(h, value) ==
  IF value.t = "store" THEN StoreEntries(h, value.n) ELSE ObjectEntries(value)

\* Mutation of read: the value of the first segment is resolved before the
\* permission check.
readResolvingFirst(h, s, path) ==
  LET Resolved(resolved) ==
        LET Checked(chk) ==
              IF ~chk.allowed
              THEN [ok |-> FALSE, ret |-> Undef, calls |-> resolved.calls + chk.calls]
              ELSE [ok |-> TRUE, ret |-> resolved.v, calls |-> resolved.calls + chk.calls]
        IN Checked(checkHasPermissionForKey(h, s, path, ReadPerms))
  IN Resolved(resolveValue(h, DescriptorGet(h, s, <<Head(path)>>), s))

\* Mutation of read: the whole path is looked up as one name, as a store
\* without path navigation does.
readFlat(h, s, path) ==
  LET Checked(chk) ==
        IF ~chk.allowed
        THEN [ok |-> FALSE, ret |-> Undef, calls |-> chk.calls]
        ELSE [ok |-> TRUE, ret |-> DescriptorGet(h, s, path), calls |-> chk.calls]
  IN Checked(checkHasPermissionForKey(h, s, path, ReadPerms))

\* Each LET operator below takes the result of a call as its argument, so
\* that the call is evaluated once.
RECURSIVE read(_, _, _)
read(h, s, path) ==
  LET Checked(chk) ==
        IF ~chk.allowed
        THEN [ok |-> FALSE, ret |-> Undef, calls |-> chk.calls]
        ELSE LET rawValue == DescriptorGet(h, s, <<Head(path)>>)
                 Resolved(resolved) ==
                   IF Len(path) = 1
                   THEN [ok |-> TRUE, ret |-> resolved.v,
                         calls |-> chk.calls + resolved.calls]
                   ELSE IF resolved.v.t = "store"
                   THEN LET Sub(sub) ==
                              [ok |-> sub.ok, ret |-> sub.ret,
                               calls |-> chk.calls + resolved.calls + sub.calls]
                        IN Sub(read(h, resolved.v.n, Tail(path)))
                   ELSE [ok |-> TRUE, ret |-> resolved.v,
                         calls |-> chk.calls + resolved.calls]
             IN Resolved(resolveValue(h, rawValue, s))
  IN Checked(checkHasPermissionForKey(h, s, path, ReadPerms))

RECURSIVE write(_, _, _, _, _)
RECURSIVE writeEntries(_, _, _, _)

\* Lines 69-94: the write once it is allowed.  The result holds the heap and
\* allocation counter after the call, whether it returned (ok) or threw, the
\* value returned, and the number of producer calls made.
writeAllowed(h, nx, s, path, value, calls) ==
  LET key == <<Head(path)>>
      newStore == nx
      \* lines 72-82
      Single(h1) ==
        IF isObject(value)
        THEN LET Filled(we) ==
                   IF ~we.ok
                   THEN [h |-> we.h, nx |-> we.nx, ok |-> FALSE, ret |-> Undef,
                         calls |-> calls + we.calls]
                   ELSE LET Set(h3) ==
                              [h |-> h3, nx |-> we.nx, ok |-> TRUE,
                               ret |-> DescriptorGet(h3, s, key),
                               calls |-> calls + we.calls]
                        IN Set(DescriptorSet(we.h, s, key, StoreRef(newStore)))
             IN Filled(writeEntries(Alloc(h1, newStore), nx + 1, newStore,
                                    EntriesFor(h1, value)))
        ELSE LET Set(h2) ==
                   [h |-> h2, nx |-> nx, ok |-> TRUE,
                    ret |-> DescriptorGet(h2, s, key), calls |-> calls]
             IN Set(DescriptorSet(h1, s, key, value))
      \* lines 84-94
      Nested(h1) ==
        LET currentValue == DescriptorGet(h1, s, key)
            Resolved(resolved) ==
              IF resolved.v.t = "store"
              THEN LET Sub(sub) ==
                         [h |-> sub.h, nx |-> sub.nx, ok |-> sub.ok,
                          ret |-> IF sub.ok THEN resolved.v ELSE Undef,
                          calls |-> calls + resolved.calls + sub.calls]
                   IN Sub(write(h1, nx, resolved.v.n, Tail(path), value))
              ELSE LET Sub(sub) ==
                         [h |-> sub.h, nx |-> sub.nx, ok |-> sub.ok,
                          ret |-> IF sub.ok THEN StoreRef(newStore) ELSE Undef,
                          calls |-> calls + resolved.calls + sub.calls]
                   IN Sub(write(DescriptorSet(Alloc(h1, newStore), s, key,
                                              StoreRef(newStore)),
                                nx + 1, newStore, Tail(path), value))
        IN Resolved(resolveValue(h1, currentValue, s))
  IN IF Len(path) = 1
     THEN Single(define(h, s, key, getPermissionsForKey(h, s, key)))
     ELSE Nested(define(h, s, key, getPermissionsForKey(h, s, key)))

\* Mutation of write: the first segment is defined before the permission
\* check.
writeDefiningFirst(h, nx, s, path, value) ==
  LET Checked(chk) ==
        IF ~chk.allowed
        THEN [h |-> define(h, s, <<Head(path)>>,
                           getPermissionsForKey(h, s, <<Head(path)>>)),
              nx |-> nx, ok |-> FALSE, ret |-> Undef, calls |-> chk.calls]
        ELSE writeAllowed(h, nx, s, path, value, chk.calls)
  IN Checked(checkHasPermissionForKey(h, s, path, WritePerms))

\* Lines 65-68, then the rest of the method.
write(h, nx, s, path, value) ==
  LET Checked(chk) ==
        IF ~chk.allowed
        THEN [h |-> h, nx |-> nx, ok |-> FALSE, ret |-> Undef, calls |-> chk.calls]
        ELSE writeAllowed(h, nx, s, path, value, chk.calls)
  IN Checked(checkHasPermissionForKey(h, s, path, WritePerms))

\* Mutation of writeEntries: a write that throws is skipped and the loop goes
\* on; the error is raised at the end.
RECURSIVE writeEntriesKeepGoing(_, _, _, _)
writeEntriesKeepGoing(h, nx, s, ents) ==
  IF ents = <<>>
  THEN [h |-> h, nx |-> nx, ok |-> TRUE, calls |-> 0, n |-> 0]
  ELSE LET Written(w) ==
             LET Rest(rest) ==
                   [h |-> rest.h, nx |-> rest.nx, ok |-> w.ok /\ rest.ok,
                    calls |-> w.calls + rest.calls,
                    n |-> rest.n + (IF w.ok THEN 1 ELSE 0)]
             IN Rest(writeEntriesKeepGoing(w.h, w.nx, s, Tail(ents)))
       IN Written(write(h, nx, s, Head(ents).k, Head(ents).v))

\* forEach over Object.entries: the first write that throws ends the loop;
\* n counts the writes that returned.
writeEntries(h, nx, s, ents) ==
  IF ents = <<>>
  THEN [h |-> h, nx |-> nx, ok |-> TRUE, calls |-> 0, n |-> 0]
  ELSE LET Written(w) ==
             IF ~w.ok
             THEN [h |-> w.h, nx |-> w.nx, ok |-> FALSE, calls |-> w.calls, n |-> 0]
             ELSE LET Rest(rest) ==
                        [h |-> rest.h, nx |-> rest.nx, ok |-> rest.ok,
                         calls |-> w.calls + rest.calls, n |-> rest.n + 1]
                  IN Rest(writeEntries(w.h, w.nx, s, Tail(ents)))
       IN Written(write(h, nx, s, Head(ents).k, Head(ents).v))

Native(key) == [t |-> "native", k |-> key]
EntriesOf(e) == [t |-> "entries", e |-> e]

\* getAllDescriptors(): the names on the immediate prototype and on the
\* instance itself.
getAllDescriptors(h, s) ==
  (IF OwnProtoAccessors(s) = {} THEN StoreMembers
   ELSE OwnProtoAccessors(s) \cup {<<"constructor">>, <<"permissionsByKey">>})
  \cup InstanceFields \cup DOMAIN h[s].slots

\* descriptor.get?.call(this) ?? descriptor.value
DescriptorVal(h, s, key) ==
  IF key \in DOMAIN h[s].slots \/ key \in OwnProtoAccessors(s)
  THEN LET got == DescriptorGet(h, s, key)
       IN IF got.t \in {"undef", "null"} THEN Undef ELSE got
  ELSE IF key = DP THEN Str(h[s].defaultPolicy)
  ELSE IF key = PK THEN TableObject(h[s].permissionsByKey)
  ELSE Native(key)

RECURSIVE entries(_, _)

\* Mutation of entries: no key is filtered by allowedToRead.
entriesUnfiltered(h, s) ==
  [k \in getAllDescriptors(h, s) |->
     LET val == DescriptorVal(h, s, k)
     IN IF val.t = "store" THEN EntriesOf(entries(h, val.n)) ELSE val]

entries(h, s) ==
  LET keys == getAllDescriptors(h, s)
      shown == {k \in keys : DescriptorVal(h, s, k).t = "store" \/ allowedToRead(h, s, k)}
  IN [k \in shown |->
        LET val == DescriptorVal(h, s, k)
        IN IF val.t = "store" THEN EntriesOf(entries(h, val.n)) ELSE val]

\* The stores a value refers to.
RECURSIVE StoresIn(_)
StoresIn(value) ==
  IF value.t = "store" THEN {value.n}
  ELSE IF value.t = "obj" THEN UNION {StoresIn(value.e[i].v) : i \in 1..Len(value.e)}
  ELSE IF value.t = "arr" THEN UNION {StoresIn(value.e[i]) : i \in 1..Len(value.e)}
  ELSE {}

\* The stores the slots of s refer to.
Held(h, s) == UNION {StoresIn(h[s].slots[k]) : k \in DOMAIN h[s].slots}

RECURSIVE Closure(_, _, _)
Closure(h, frontier, seen) ==
  IF frontier \subseteq seen THEN seen
  ELSE Closure(h, UNION {Held(h, x) : x \in frontier \ seen}, seen \cup frontier)

\* The stores reachable from s through slot contents.
ReachFrom(h, s) == Closure(h, {s}, {})

Collect(h) == [x \in ReachFrom(h, Root) |-> h[x]]

(***************************************************************************)
(* The store without path navigation: a path is one name, looked up on the *)
(* immediate prototype of the instance only.  Its Restrict installs an     *)
(* accessor whose setter records the permissions on the instance.          *)
(***************************************************************************)
\* Own properties of Store.prototype in this variant.
Flat_StoreMembers ==
  {<<"constructor">>, <<"allowedToRead">>, <<"allowedToWrite">>, <<"read">>,
   <<"write">>, <<"writeEntries">>, <<"entries">>, <<"checkHasPermissionForKey">>,
   <<"hasKey">>, <<"getAllDescriptors">>, <<"getDescriptor">>}

\* The class of the instance: its decorated fields in declaration order.
Flat_Class(sh) ==
  IF Shapes[sh].classes = <<>> THEN <<>>
  ELSE Shapes[sh].classes[Len(Shapes[sh].classes)]

\* Names Restrict gave an accessor on the immediate prototype.
Flat_Accessors(sh) == {Flat_Class(sh)[j].k : j \in 1..Len(Flat_Class(sh))}

\* The params closed over by the accessor of key: the last decorator applied
\* to that name redefines the property.
Flat_Params(sh, key) ==
  LET c == Flat_Class(sh)
      j == CHOOSE i \in 1..Len(c) :
             /\ c[i].k = key
             /\ \A m \in 1..Len(c) : c[m].k = key => m <= i
  IN c[j].params

\* The instance after construction: the class fields of Store, then each
\* field initialiser through the setter of its accessor.
Flat_New(sh) ==
  LET keys == DOMAIN Shapes[sh].vals \cap Flat_Accessors(sh)
  IN [store |-> [defaultPolicy |-> "rw",
                 permissionsByKey |-> [k \in keys |-> Flat_Params(sh, k)],
                 slots |-> [k \in keys |-> Shapes[sh].vals[k]]],
      ok |-> TRUE, ret |-> Undef]

\* hasKey(key)
Flat_hasKey(sh, key) ==
  IF Shapes[sh].classes = <<>> THEN key \in Flat_StoreMembers
  ELSE key \in Flat_Accessors(sh) \cup {<<"constructor">>}

\* getDescriptor(key)?.get?.call(this)
Flat_DescriptorGet(sh, f, key) ==
  IF key \in Flat_Accessors(sh) /\ key \in DOMAIN f.slots THEN f.slots[key] ELSE Undef

\* getDescriptor(key)?.set?.call(this, value)
Flat_DescriptorSet(sh, f, key, value) ==
  IF key \in Flat_Accessors(sh)
  THEN [f EXCEPT !.slots = Put(@, key, value),
                 !.permissionsByKey = Put(@, key, Flat_Params(sh, key))]
  ELSE f

\* checkHasPermissionForKey(key, permissions): keyPerms is an array, which is
\* truthy also when it is empty.
Flat_checkHasPermissionForKey(sh, f, key, permissions) ==
  LET keyPerms == IF key \in DOMAIN f.permissionsByKey
                  THEN f.permissionsByKey[key] ELSE <<>>
  IN IF Flat_hasKey(sh, key)
     THEN \E i \in 1..Len(keyPerms) : keyPerms[i] \in permissions
     ELSE IF f.defaultPolicy = "none" THEN FALSE
     ELSE f.defaultPolicy \in permissions

Flat_allowedToRead(sh, f, key) == Flat_checkHasPermissionForKey(sh, f, key, ReadPerms)
Flat_allowedToWrite(sh, f, key) == Flat_checkHasPermissionForKey(sh, f, key, WritePerms)

\* read(path): the store afterwards and the outcome.
Flat_read(sh, f, path) ==
  IF ~Flat_allowedToRead(sh, f, path)
  THEN [store |-> f, ok |-> FALSE, ret |-> Undef]
  ELSE [store |-> f, ok |-> TRUE, ret |-> Flat_DescriptorGet(sh, f, path)]

\* write(path, value): the store afterwards and the outcome.
Flat_write(sh, f, path, value) ==
  IF ~Flat_allowedToWrite(sh, f, path)
  THEN [store |-> f, ok |-> FALSE, ret |-> Undef]
  ELSE LET g == Flat_DescriptorSet(sh, f, path, value)
       IN [store |-> g, ok |-> TRUE, ret |-> Flat_DescriptorGet(sh, g, path)]

(***************************************************************************)
(* Inputs of the calls.                                                    *)
(***************************************************************************)
\* The paths the calls are made with.
Paths == {<<"a">>, <<"b">>, <<"a", "a">>, <<"a", "b">>}

\* { a: 1, b: 2 }
ObjAB == Obj(<<Entry(<<"a">>, Prim(1)), Entry(<<"b">>, Prim(2))>>)
\* { b: 1, a: 2, 'b:a': 1 }
ObjBA == Obj(<<Entry(<<"b">>, Prim(1)), Entry(<<"a">>, Prim(2)),
               Entry(<<"b", "a">>, Prim(1))>>)
\* [1]
ArrOne == Arr(<<Prim(1)>>)

\* The values write is called with.
WriteValues == {Prim(1), Prim(2), FnGet(<<"b">>), ObjAB, ArrOne}
\* The objects writeEntries is called with.
EntryObjects == {ObjAB, ObjBA}

NoCall == [op |-> "new", path |-> <<>>, value |-> Undef,
           ok |-> TRUE, ret |-> Undef, calls |-> 0, n |-> 0]

(***************************************************************************)
(* The state machine: one action per public operation, called on the root  *)
(* store.  read, entries, allowedToRead and allowedToWrite leave the heap  *)
(* as it is, so every call that can follow one of them can follow the      *)
(* state it was made in; a behaviour of the model therefore ends with its  *)
(* first observation (Ready).                                              *)
(***************************************************************************)
Observations == {"read", "entries", "allowedToRead", "allowedToWrite"}
Ready == last.op \notin Observations

Init ==
  /\ shape \in 1..Len(Shapes)
  /\ heap = [x \in {Root} |-> NewStore]
  /\ nextId = Root + 1
  /\ last = NoCall
  /\ flat = Flat_New(shape)

Write(path, value) ==
  /\ Ready
  /\ \E w \in {write(heap, nextId, Root, path, value)} :
     /\ w.nx <= MaxStores + 1
     /\ heap' = Collect(w.h)
     /\ nextId' = w.nx
     /\ last' = [op |-> "write", path |-> path,
                 value |-> IF w.ok THEN value ELSE Undef,
                 ok |-> w.ok, ret |-> w.ret, calls |-> w.calls, n |-> 0]
     /\ UNCHANGED <<shape, flat>>

WriteEntries(obj) ==
  /\ Ready
  /\ \E w \in {writeEntries(heap, nextId, Root, ObjectEntries(obj))} :
     /\ w.nx <= MaxStores + 1
     /\ heap' = Collect(w.h)
     /\ nextId' = w.nx
     /\ last' = [op |-> "writeEntries", path |-> <<>>, value |-> obj,
                 ok |-> w.ok, ret |-> Undef, calls |-> w.calls, n |-> w.n]
     /\ UNCHANGED <<shape, flat>>

Read(path) ==
  /\ Ready
  /\ \E r \in {read(heap, Root, path)} :
     /\ last' = [op |-> "read", path |-> path, value |-> Undef,
                 ok |-> r.ok, ret |-> r.ret, calls |-> r.calls, n |-> 0]
     /\ UNCHANGED <<heap, nextId, shape, flat>>

Entries ==
  /\ Ready
  /\ last' = [op |-> "entries", path |-> <<>>, value |-> Undef,
              ok |-> TRUE, ret |-> EntriesOf(entries(heap, Root)), calls |-> 0, n |-> 0]
  /\ UNCHANGED <<heap, nextId, shape, flat>>

AllowedToRead(path) ==
  /\ Ready
  /\ \E c \in {checkHasPermissionForKey(heap, Root, path, ReadPerms)} :
     /\ last' = [op |-> "allowedToRead", path |-> path, value |-> Undef,
                 ok |-> c.allowed, ret |-> Undef, calls |-> c.calls, n |-> 0]
     /\ UNCHANGED <<heap, nextId, shape, flat>>

AllowedToWrite(path) ==
  /\ Ready
  /\ \E c \in {checkHasPermissionForKey(heap, Root, path, WritePerms)} :
     /\ last' = [op |-> "allowedToWrite", path |-> path, value |-> Undef,
                 ok |-> c.allowed, ret |-> Undef, calls |-> c.calls, n |-> 0]
     /\ UNCHANGED <<heap, nextId, shape, flat>>

\* store.defaultPolicy = p
SetDefaultPolicy(p) ==
  /\ Ready
  /\ heap[Root].defaultPolicy # p
  /\ heap' = [heap EXCEPT ![Root].defaultPolicy = p]
  /\ last' = [op |-> "setDefaultPolicy", path |-> <<>>, value |-> Undef,
              ok |-> TRUE, ret |-> Undef, calls |-> 0, n |-> 0]
  /\ UNCHANGED <<nextId, shape, flat>>

Next ==
  \/ \E path \in Paths, value \in WriteValues : Write(path, value)
  \/ \E obj \in EntryObjects : WriteEntries(obj)
  \/ \E path \in Paths : Read(path)
  \/ Entries
  \/ \E path \in Paths : AllowedToRead(path)
  \/ \E path \in Paths : AllowedToWrite(path)
  \/ \E p \in Permission : SetDefaultPolicy(p)

Spec == Init /\ [][Next]_vars

(***************************************************************************)
(* Properties.                                                             *)
(***************************************************************************)
Keys == {<<"a">>, <<"b">>, <<"0">>}

\* C1: a multi-segment write whose first segment resolves to a nested store C
\* (and which is allowed) is applied inside C: afterwards the slot still holds
\* the same store C, C is returned, every other entry of C is unchanged and
\* the written entry is in C.
C1_NestedWriteDescends ==
  [][(/\ last'.op = "write"
      /\ Len(last'.path) > 1
      /\ allowedToWrite(heap, Root, last'.path)
      /\ getValueForKey(heap, Root, <<Head(last'.path)>>).v.t = "store")
     => LET head == <<Head(last'.path)>>
            C == getValueForKey(heap, Root, head).v
        IN /\ last'.ok
           /\ last'.ret = C
           /\ DescriptorGet(heap', Root, head) = C
           /\ \A k \in DOMAIN heap[C.n].slots :
                k # Tail(last'.path)
                  => /\ k \in DOMAIN heap'[C.n].slots
                     /\ heap'[C.n].slots[k] = heap[C.n].slots[k]]_vars

RefDeclared(s, k) ==
  LET cs == IF s = Root THEN Shapes[shape].classes ELSE <<>>
      declaring == {i \in 1..Len(cs) : \E j \in 1..Len(cs[i]) : cs[i][j].k = k}
  IN IF declaring = {} THEN <<>>
     ELSE LET i == CHOOSE x \in declaring : \A y \in declaring : y <= x
              j == CHOOSE x \in 1..Len(cs[i]) :
                     /\ cs[i][x].k = k
                     /\ \A y \in 1..Len(cs[i]) : cs[i][y].k = k => y <= x
          IN cs[i][j].params

RefOverride(s, k) ==
  IF k \in DOMAIN heap[s].permissionsByKey THEN heap[s].permissionsByKey[k]
  ELSE RefDeclared(s, k)

RefAllowed(s, k, req) ==
  IF RefOverride(s, k) # <<>>
  THEN {RefOverride(s, k)[i] : i \in 1..Len(RefOverride(s, k))} \cap req # {}
  ELSE heap[s].defaultPolicy # "none" /\ heap[s].defaultPolicy \in req

\* C4: for a single-segment key the permission check equals the reference
\* rule: the override list decides when it is non-empty, the default policy
\* otherwise.
C4_ReferenceRule ==
  \A s \in DOMAIN heap : \A k \in Keys :
    /\ allowedToRead(heap, s, k) = RefAllowed(s, k, {"r", "rw"})
    /\ allowedToWrite(heap, s, k) = RefAllowed(s, k, {"w", "rw"})

C4_Witness ==
  /\ shape = 3
  /\ heap[Root].defaultPolicy = "none"
  /\ <<"b">> \notin DOMAIN heap[Root].permissionsByKey
  /\ last.op = "allowedToWrite" /\ last.path = <<"b">> /\ last.ok
  /\ allowedToRead(heap, Root, <<"b">>)
  /\ ~allowedToRead(heap, Root, <<"0">>)

\* A path has no explicit override on store s: nothing is recorded or
\* declared for its name nor for its first segment.
NoOverride(s, p) ==
  /\ getPermissionsForKey(heap, s, p) = <<>>
  /\ getPermissionsForKey(heap, s, <<Head(p)>>) = <<>>

Denied(s, p) ==
  /\ ~allowedToRead(heap, s, p)
  /\ ~allowedToWrite(heap, s, p)
  /\ ~read(heap, s, p).ok
  /\ \A v \in {Prim(1), ObjAB} :
       /\ ~write(heap, nextId, s, p, v).ok
       /\ write(heap, nextId, s, p, v).h = heap

\* C5 as stated: under defaultPolicy none every call on a key or path without
\* explicit override is denied.
C5_NoneDeniesAsStated ==
  \A s \in DOMAIN heap : \A p \in Paths :
    (heap[s].defaultPolicy = "none" /\ NoOverride(s, p)) => Denied(s, p)

\* C5 (amended): under defaultPolicy none every call on a key without explicit
\* override is denied when the key is a single segment or a path whose first
\* segment does not resolve to a nested store.
C5_NoneDenies ==
  \A s \in DOMAIN heap : \A p \in Paths :
    (/\ heap[s].defaultPolicy = "none"
     /\ NoOverride(s, p)
     /\ (Len(p) = 1 \/ getValueForKey(heap, s, <<Head(p)>>).v.t # "store"))
    => Denied(s, p)

C5_Witness ==
  /\ heap[Root].defaultPolicy = "none"
  /\ NoOverride(Root, <<"a", "b">>)
  /\ DescriptorGet(heap, Root, <<"a">>) = Prim(1)
  /\ DescriptorGet(heap, Root, <<"b">>).t = "store"
  /\ last.op = "write" /\ ~last.ok /\ last.path = <<"a", "b">>

\* C6: a write that is not allowed throws and changes nothing: the heap (the
\* slots, permissionsByKey and defaultPolicy of every store) and entries()
\* are as before.
C6_DeniedWriteNoEffect ==
  [][(last'.op = "write" /\ ~allowedToWrite(heap, Root, last'.path))
     => /\ ~last'.ok
        /\ heap' = heap
        /\ nextId' = nextId
        /\ entries(heap', Root) = entries(heap, Root)]_vars

C6_Witness ==
  /\ last.op = "write" /\ ~last.ok /\ last.path = <<"b">>
  /\ heap[Root].defaultPolicy = "none"
  /\ <<"b">> \notin DOMAIN heap[Root].slots
  /\ <<"b">> \notin DOMAIN entries(heap, Root)
  /\ DescriptorGet(heap, Root, <<"a">>).t = "store"

\* C7: a single-segment key whose permissions are ["w"] can be written (a
\* primitive is returned as written), cannot be read, and is absent from
\* entries() while it holds no store.
C7_WriteOnlyKey ==
  \A k \in Keys :
    (hasKey(heap, Root, k) /\ getPermissionsForKey(heap, Root, k) = <<"w">>)
    => /\ ~read(heap, Root, k).ok
       /\ DescriptorGet(heap, Root, k).t # "store" => k \notin DOMAIN entries(heap, Root)
       /\ (last.op = "write" /\ last.path = k)
            => /\ last.ok
               /\ last.value.t = "prim" => last.ret = last.value

C7_Witness ==
  /\ shape = 2
  /\ heap[Root].defaultPolicy = "rw"
  /\ last.op = "write" /\ last.ok /\ last.path = <<"a">> /\ last.ret = Prim(1)
  /\ heap[Root].slots[<<"a">>] = Prim(1)
  /\ <<"b">> \in DOMAIN entries(heap, Root)

\* The first n writes of writeEntries, one after the other.
RECURSIVE WritesInOrder(_, _, _, _)
WritesInOrder(h, nx, ents, n) ==
  IF n = 0 THEN [h |-> h, nx |-> nx, ok |-> TRUE]
  ELSE LET Before(b) ==
             LET One(w) == [h |-> w.h, nx |-> w.nx, ok |-> b.ok /\ w.ok]
             IN One(write(b.h, b.nx, Root, ents[n].k, ents[n].v))
       IN Before(WritesInOrder(h, nx, ents, n - 1))

\* C8: writeEntries(obj) is the writes of obj's entries in order up to the
\* first one that throws: the writes before it stay applied, the error
\* reaches the caller and no later entry is written.
C8_WriteEntriesInOrder ==
  [][last'.op = "writeEntries"
     => LET ents == ObjectEntries(last'.value)
            done == WritesInOrder(heap, nextId, ents, last'.n)
        IN /\ last'.n <= Len(ents)
           /\ done.ok
           /\ heap' = Collect(done.h)
           /\ last'.ok = (last'.n = Len(ents))
           /\ last'.n < Len(ents)
                => ~allowedToWrite(done.h, Root, ents[last'.n + 1].k)]_vars

C8_Witness ==
  /\ shape = 2
  /\ last.op = "writeEntries" /\ ~last.ok /\ last.n = 1 /\ last.value = ObjAB
  /\ DescriptorGet(heap, Root, <<"a">>) = Prim(1)
  /\ <<"b">> \notin DOMAIN heap[Root].slots

\* C9: reading a single-segment key whose slot holds a producer calls the
\* producer once, bound to the store of the slot, and returns what it computes
\* from the store's current content.
C9_ProducerFresh ==
  /\ \A s \in DOMAIN heap : \A k \in Keys :
       (DescriptorGet(heap, s, k).t = "fn" /\ allowedToRead(heap, s, k))
       => /\ read(heap, s, k).ok
          /\ read(heap, s, k).calls = 1
          /\ read(heap, s, k).ret = DescriptorGet(heap, s, DescriptorGet(heap, s, k).k)
  /\ (last.op = "read" /\ last.ok /\ Len(last.path) = 1
      /\ DescriptorGet(heap, Root, last.path).t = "fn")
     => /\ last.calls = 1
        /\ last.ret = DescriptorGet(heap, Root, DescriptorGet(heap, Root, last.path).k)

C9_Witness ==
  /\ last.op = "read" /\ last.ok /\ last.path = <<"a">> /\ last.calls = 1
  /\ DescriptorGet(heap, Root, <<"a">>) = FnGet(<<"b">>)
  /\ DescriptorGet(heap, Root, <<"b">>) = Prim(2)
  /\ last.ret = Prim(2)

\* C10: write(k, arr) on a single-segment key stores the array itself as the
\* slot content and creates no nested store.
C10_ArrayOpaque ==
  (last.op = "write" /\ last.ok /\ Len(last.path) = 1 /\ last.value.t = "arr")
  => /\ DescriptorGet(heap, Root, last.path) = last.value
     /\ last.ret = last.value

(***************************************************************************)
(* Calls on nested stores.  A caller that holds a nested store (returned   *)
(* by read or write) can assign its defaultPolicy like the root's.         *)
(* SpecNested adds this assignment to writes of plain values and to the    *)
(* observations made on the root.                                          *)
(***************************************************************************)
\* The values written under SpecNested.
NestedValues == {Prim(1), FnGet(<<"b">>)}

\* child.defaultPolicy = p, for a store held by a slot of another store
SetNestedPolicy(s, p) ==
  /\ Ready
  /\ s \in DOMAIN heap
  /\ s # Root
  /\ defaultPolicyOf(heap, s) # Str(p)
  /\ heap' = IF DP \in DOMAIN heap[s].slots
             THEN [heap EXCEPT ![s].slots[DP] = Str(p)]
             ELSE [heap EXCEPT ![s].defaultPolicy = p]
  /\ last' = [op |-> "setNestedPolicy", path |-> <<>>, value |-> Undef,
              ok |-> TRUE, ret |-> Undef, calls |-> 0, n |-> 0]
  /\ UNCHANGED <<nextId, shape, flat>>

NextNested ==
  \/ \E path \in Paths, value \in NestedValues : Write(path, value)
  \/ \E path \in Paths : Read(path)
  \/ Entries
  \/ \E path \in Paths : AllowedToRead(path)
  \/ \E path \in Paths : AllowedToWrite(path)
  \/ \E p \in Permission : SetDefaultPolicy(p)
  \/ \E s \in 1..(MaxStores + 1), p \in Permission : SetNestedPolicy(s, p)

SpecNested == Init /\ [][NextNested]_vars

\* C11: for a multi-segment path whose first segment resolves to a nested
\* store C, allowedToRead and allowedToWrite of the path on the store equal
\* allowedToRead and allowedToWrite of the remaining path on C, whatever the
\* store's own override for the first segment and its defaultPolicy are.
C11_Delegation ==
  /\ \A s \in DOMAIN heap : \A p \in Paths :
       (Len(p) > 1 /\ getValueForKey(heap, s, <<Head(p)>>).v.t = "store")
       => LET C == getValueForKey(heap, s, <<Head(p)>>).v.n
          IN /\ allowedToRead(heap, s, p) = allowedToRead(heap, C, Tail(p))
             /\ allowedToWrite(heap, s, p) = allowedToWrite(heap, C, Tail(p))
  /\ (/\ last.op \in {"allowedToRead", "allowedToWrite"}
      /\ Len(last.path) > 1
      /\ getValueForKey(heap, Root, <<Head(last.path)>>).v.t = "store")
     => LET C == getValueForKey(heap, Root, <<Head(last.path)>>).v.n
        IN last.ok = IF last.op = "allowedToRead"
                     THEN allowedToRead(heap, C, Tail(last.path))
                     ELSE allowedToWrite(heap, C, Tail(last.path))

C11_Witness ==
  /\ shape = 2
  /\ heap[Root].defaultPolicy = "none"
  /\ getPermissionsForKey(heap, Root, <<"a">>) = <<"w">>
  /\ DescriptorGet(heap, Root, <<"a">>).t = "store"
  /\ heap[DescriptorGet(heap, Root, <<"a">>).n].defaultPolicy = "r"
  /\ last.op = "allowedToRead" /\ last.path = <<"a", "b">> /\ last.ok
  /\ ~allowedToRead(heap, Root, <<"a">>)
  /\ ~allowedToWrite(heap, Root, <<"a", "b">>)

(***************************************************************************)
(* Writes of store references.  A store is a value write accepts; the      *)
(* caller holds the root and the nested stores read and write returned.    *)
(* SpecHeld writes primitives and held stores, and assigns the             *)
(* defaultPolicy of nested stores.                                         *)
(***************************************************************************)
\* The number of stores created under SpecHeld.
MaxHeldStores == 5

HeldPaths == {<<"a">>, <<"b">>, <<"a", "b">>}

\* The values written under SpecHeld; of the stores, those in the heap.
HeldValues == {Prim(1)} \cup {StoreRef(i) : i \in 1..MaxHeldStores}

\* store.write(path, value) with value a primitive or a held store
HeldWrite(path, value) ==
  /\ Ready
  /\ value.t = "store" => value.n \in DOMAIN heap
  /\ \E w \in {write(heap, nextId, Root, path, value)} :
     /\ w.nx <= MaxHeldStores + 1
     /\ heap' = Collect(w.h)
     /\ nextId' = w.nx
     /\ last' = [op |-> "write", path |-> path,
                 value |-> IF w.ok THEN value ELSE Undef,
                 ok |-> w.ok, ret |-> w.ret, calls |-> w.calls, n |-> 0]
     /\ UNCHANGED <<shape, flat>>

\* store.writeEntries(obj)
HeldWriteEntries(obj) ==
  /\ Ready
  /\ \E w \in {writeEntries(heap, nextId, Root, ObjectEntries(obj))} :
     /\ w.nx <= MaxHeldStores + 1
     /\ heap' = Collect(w.h)
     /\ nextId' = w.nx
     /\ last' = [op |-> "writeEntries", path |-> <<>>, value |-> obj,
                 ok |-> w.ok, ret |-> Undef, calls |-> w.calls, n |-> w.n]
     /\ UNCHANGED <<shape, flat>>

NextHeld ==
  \/ \E path \in HeldPaths, value \in HeldValues : HeldWrite(path, value)
  \/ \E obj \in EntryObjects : HeldWriteEntries(obj)
  \/ \E s \in 1..MaxHeldStores, p \in Permission : SetNestedPolicy(s, p)

SpecHeld == Init /\ [][NextHeld]_vars

\* The slots that hold a store, as <<store, name>> pairs.
StoreSlots ==
  {sk \in UNION {{<<s, k>> : k \in DOMAIN heap[s].slots} : s \in DOMAIN heap} :
     heap[sk[1]].slots[sk[2]].t = "store"}

\* The stores reachable from the contents of the slots of s.
Below(s) ==
  Closure(heap, {heap[s].slots[k].n :
                   k \in {x \in DOMAIN heap[s].slots : heap[s].slots[x].t = "store"}}, {})

\* C12: the stores form a tree: no store is reachable from itself through
\* slot contents and no store is the content of two slots.
C12_OwnershipTree ==
  /\ \A s \in DOMAIN heap : s \notin Below(s)
  /\ \A x \in StoreSlots : \A y \in StoreSlots :
       heap[x[1]].slots[x[2]] = heap[y[1]].slots[y[2]] => x = y
  /\ \A x \in StoreSlots : heap[x[1]].slots[x[2]].n \in DOMAIN heap

C12_Witness ==
  /\ last.op = "write" /\ last.ok /\ last.path = <<"b">>
  /\ last.value.t = "store" /\ last.value.n # Root
  /\ last.value.n \in DOMAIN heap
  /\ heap[Root].slots[<<"a">>] = last.value
  /\ heap[Root].slots[<<"b">>].t = "store"
  /\ heap[Root].slots[<<"b">>] # last.value
  /\ <<"b">> \in DOMAIN heap[heap[Root].slots[<<"b">>].n].slots

\* C14: an allowed multi-segment write whose first segment holds nothing or
\* a value that is not a store puts a new store in the slot of the first
\* segment in place of what it held, writes the remaining path inside the
\* new store, which held nothing and had defaultPolicy rw, and returns the
\* new store.
C14_ReplacesWithNewStore ==
  [][(/\ last'.op = "write"
      /\ Len(last'.path) > 1
      /\ allowedToWrite(heap, Root, last'.path)
      /\ DescriptorGet(heap, Root, <<Head(last'.path)>>).t # "store")
     => LET head == <<Head(last'.path)>>
            rest == Tail(last'.path)
            N == last'.ret
        IN /\ last'.ok
           /\ N.t = "store"
           /\ N.n \notin DOMAIN heap
           /\ N.n >= nextId
           /\ DescriptorGet(heap', Root, head) = N
           /\ heap'[N.n].defaultPolicy = "rw"
           /\ DOMAIN heap'[N.n].slots = {<<Head(rest)>>}
           /\ (Len(rest) = 1 /\ ~isObject(last'.value))
                => heap'[N.n].slots[rest] = last'.value
           /\ (Len(rest) = 1 /\ isObject(last'.value))
                => /\ heap'[N.n].slots[rest].t = "store"
                   /\ heap'[N.n].slots[rest].n \notin DOMAIN heap]_vars

\* C13: in entries() a key whose value is a nested store appears only if
\* allowedToRead of that key holds on the store asked.
C13_NestedGated ==
  \A k \in DOMAIN entries(heap, Root) :
    DescriptorVal(heap, Root, k).t = "store" => allowedToRead(heap, Root, k)

\* C15: a successful single-segment write returns the resolved value of the
\* slot after the write; for a producer, what the producer returns.
C15_WriteReturnsResolved ==
  (last.op = "write" /\ last.ok /\ Len(last.path) = 1)
  => last.ret = getValueForKey(heap, Root, last.path).v

\* The producers the permission check of path on store s calls: one for each
\* first segment that holds a producer, down the nested stores the check is
\* handed to.
RECURSIVE ProbeCalls(_, _, _)
ProbeCalls(h, s, path) ==
  IF Len(path) = 1 THEN 0
  ELSE LET raw == DescriptorGet(h, s, <<Head(path)>>)
           val == IF raw.t = "fn" THEN DescriptorGet(h, s, raw.k) ELSE raw
       IN (IF raw.t = "fn" THEN 1 ELSE 0)
          + (IF val.t = "store" THEN ProbeCalls(h, val.n, Tail(path)) ELSE 0)

\* C16 as stated: a read or write that ends in PermissionDenied has called
\* no producer and changed nothing.
C16_DeniedBeforeResolutionAsStated ==
  [][(last'.op \in {"read", "write"} /\ ~last'.ok)
     => /\ last'.calls = 0
        /\ heap' = heap
        /\ nextId' = nextId]_vars

\* C16 (amended): a read or write whose permission check fails ends in
\* PermissionDenied with nothing changed; the only producers called are those
\* the permission check itself resolves at the first segments of a
\* multi-segment path, none for a single-segment path.
C16_DeniedEagerly ==
  [][(\/ last'.op = "read" /\ ~allowedToRead(heap, Root, last'.path)
      \/ last'.op = "write" /\ ~allowedToWrite(heap, Root, last'.path))
     => /\ ~last'.ok
        /\ heap' = heap
        /\ nextId' = nextId
        /\ last'.calls = ProbeCalls(heap, Root, last'.path)
        /\ Len(last'.path) = 1 => last'.calls = 0]_vars

C16_Witness ==
  /\ shape = 2
  /\ DescriptorGet(heap, Root, <<"a">>) = FnGet(<<"b">>)
  /\ last.op = "read" /\ ~last.ok /\ last.path = <<"a">> /\ last.calls = 0
  /\ heap[Root].defaultPolicy = "rw"

\* C17: entries() reports the resolved value of a readable key: for a slot
\* holding a producer, what the producer returns, and the entries() of the
\* store it returns when it returns a nested store.
C17_EntriesResolved ==
  \A k \in Keys :
    (DescriptorGet(heap, Root, k).t = "fn" /\ allowedToRead(heap, Root, k))
    => /\ k \in DOMAIN entries(heap, Root)
       /\ LET val == getValueForKey(heap, Root, k).v
          IN entries(heap, Root)[k] =
               IF val.t = "store" THEN EntriesOf(entries(heap, val.n)) ELSE val

\* A key has a recorded or declared override that grants none of req.
Withheld(h, k, req) ==
  /\ getPermissionsForKey(h, Root, k) # <<>>
  /\ \A i \in 1..Len(getPermissionsForKey(h, Root, k)) :
       getPermissionsForKey(h, Root, k)[i] \notin req

\* C18: while a key whose override grants neither w nor rw holds a non-store
\* value, no successful write, whatever its path, changes the content of its
\* slot.
C18_UnwritableUnchanged ==
  [][\A k \in Keys :
       (/\ Withheld(heap, k, WritePerms)
        /\ getValueForKey(heap, Root, k).v.t # "store"
        /\ last'.op = "write" /\ last'.ok)
       => DescriptorGet(heap', Root, k) = DescriptorGet(heap, Root, k)]_vars

\* C19: while a key whose override grants neither r nor rw holds a primitive,
\* no read, whatever its path, returns the content of its slot.
C19_UnreadableUndisclosed ==
  \A k \in Keys :
    (/\ Withheld(heap, k, ReadPerms)
     /\ DescriptorGet(heap, Root, k).t = "prim"
     /\ last.op = "read" /\ last.ok /\ <<Head(last.path)>> = k)
    => last.ret # DescriptorGet(heap, Root, k)

(***************************************************************************)
(* The two variants side by side: every call is made with the same         *)
(* colon-free key on the root store and on a store without path            *)
(* navigation constructed from the same class declarations.                *)
(***************************************************************************)
FlatKeys == {<<"a">>, <<"b">>}
FlatValues == {Prim(1), Prim(2), FnGet(<<"b">>)}

\* write(key, value) on both
SideWrite(key, value) ==
  /\ Ready
  /\ \E w \in {write(heap, nextId, Root, key, value)} :
     /\ w.nx <= MaxStores + 1
     /\ heap' = Collect(w.h)
     /\ nextId' = w.nx
     /\ last' = [op |-> "write", path |-> key,
                 value |-> IF w.ok THEN value ELSE Undef,
                 ok |-> w.ok, ret |-> w.ret, calls |-> w.calls, n |-> 0]
  /\ flat' = Flat_write(shape, flat.store, key, value)
  /\ UNCHANGED shape

\* read(key) on both
SideRead(key) ==
  /\ Ready
  /\ \E r \in {read(heap, Root, key)} :
       last' = [op |-> "read", path |-> key, value |-> Undef,
                ok |-> r.ok, ret |-> r.ret, calls |-> r.calls, n |-> 0]
  /\ flat' = Flat_read(shape, flat.store, key)
  /\ UNCHANGED <<heap, nextId, shape>>

\* allowedToRead(key) on both
SideAllowedToRead(key) ==
  /\ Ready
  /\ \E c \in {checkHasPermissionForKey(heap, Root, key, ReadPerms)} :
       last' = [op |-> "allowedToRead", path |-> key, value |-> Undef,
                ok |-> c.allowed, ret |-> Undef, calls |-> c.calls, n |-> 0]
  /\ flat' = [store |-> flat.store,
              ok |-> Flat_allowedToRead(shape, flat.store, key), ret |-> Undef]
  /\ UNCHANGED <<heap, nextId, shape>>

\* allowedToWrite(key) on both
SideAllowedToWrite(key) ==
  /\ Ready
  /\ \E c \in {checkHasPermissionForKey(heap, Root, key, WritePerms)} :
       last' = [op |-> "allowedToWrite", path |-> key, value |-> Undef,
                ok |-> c.allowed, ret |-> Undef, calls |-> c.calls, n |-> 0]
  /\ flat' = [store |-> flat.store,
              ok |-> Flat_allowedToWrite(shape, flat.store, key), ret |-> Undef]
  /\ UNCHANGED <<heap, nextId, shape>>

\* store.defaultPolicy = p on both
SideSetDefaultPolicy(p) ==
  /\ Ready
  /\ heap[Root].defaultPolicy # p
  /\ heap' = [heap EXCEPT ![Root].defaultPolicy = p]
  /\ last' = [op |-> "setDefaultPolicy", path |-> <<>>, value |-> Undef,
              ok |-> TRUE, ret |-> Undef, calls |-> 0, n |-> 0]
  /\ flat' = [store |-> [flat.store EXCEPT !.defaultPolicy = p],
              ok |-> TRUE, ret |-> Undef]
  /\ UNCHANGED <<nextId, shape>>

NextFlat ==
  \/ \E key \in FlatKeys, value \in FlatValues : SideWrite(key, value)
  \/ \E key \in FlatKeys : SideRead(key)
  \/ \E key \in FlatKeys : SideAllowedToRead(key)
  \/ \E key \in FlatKeys : SideAllowedToWrite(key)
  \/ \E p \in Permission : SideSetDefaultPolicy(p)

SpecFlat == Init /\ [][NextFlat]_vars

\* C20: after the same calls with colon-free keys on both variants, a read, a
\* write, an allowedToRead or an allowedToWrite has the same outcome on both:
\* the same returned value, or PermissionDenied on both.
C20_FlatIsSingleSegment ==
  last.op \in {"read", "write", "allowedToRead", "allowedToWrite"}
  => /\ flat.ok = last.ok
     /\ flat.ret = last.ret

====
